---- MODULE Spec2Model ----
(***************************************************************************)
(* Model of src/Sec3_Digitopia.js: an express service that rate-limits     *)
(* three routes per user key, escalates a timed block on every threshold   *)
(* crossing and keeps a bounded reputation score per key.                  *)
(*                                                                         *)
(* A request runs through its route's middleware chain                     *)
(*     checkBlocked -> <limiter> -> route handler | rateLimitHandler       *)
(* checkBlocked, the rate-limit handler and the route handlers are         *)
(* synchronous JavaScript functions: each is one atomic step.  The limiter *)
(* is the asynchronous middleware returned by rateLimit(): it awaits its   *)
(* store's increment before it compares the hit count with max, so the     *)
(* steps of other requests may run between checkBlocked, the increment and *)
(* the handler of one request.                                             *)
(***************************************************************************)
EXTENDS Integers, FiniteSets, Sequences, TLC

\* ---------------------------------------------------------------- bounds
\* Number of requests dispatched to the protected routes in one run of Spec
\* (two keys), of SpecKey (one key) and of SpecReport (reports of one key).
MaxStarted == 2

MaxStartedKey == 4

MaxReports == 6

\* Requests started in a run of SpecAdmin.
MaxStartedAdmin == 3

\* Requests started in a run of SpecTor.
MaxStartedTor == 2

\* Requests started in a run of SpecReward.
MaxStartedReward == 7

\* Requests started in a run of SpecWindow.
MaxStartedWindow == 4

\* Request slots that may be in flight at the same time.
Req == {1, 2}

\* Values of getUserKey(req).
Key == {"alice", "bob"}

\* The key of the runs that follow a single principal.
OneKey == {"alice"}

\* The protected routes (action classes).
Class == {"report", "browse", "upload"}

\* Values Date.now() takes, in ms: the clock only moves forward through them.
\* 59600 lies in the last half second of a block set at 0; 120000, 420000
\* and 4020000 are the expiries of the blocks set at 60000 (1 min), 120000
\* (5 min) and 420000 (60 min); the browse window opened at 0 ends at 3600000.
Instants == {0, 59600, 120000, 420000, 4020000}

VARIABLES
    clock,       \* Date.now()
    penalties,   \* const penalties = {}: key -> [violations, blockedUntil]
    reputation,  \* const reputation = {}: key -> [score, lastUpdated]
    hits,        \* the limiters' stores: class -> key -> [totalHits, resetTime]
    pc,          \* slot -> position of the request in its middleware chain
    req,         \* slot -> [key, class, headers, isTorVpn] of the request
    sent,        \* the response the last step wrote (NoResponse: none)
    started      \* number of requests dispatched so far

vars == <<clock, penalties, reputation, hits, pc, req, sent, started>>

\* ------------------------------------------------------------ pure helpers
Min(a, b) == IF a < b THEN a ELSE b

Max(a, b) == IF a > b THEN a ELSE b

\* Math.round(x / d) for x >= 0, d > 0 (rounds half up).
RoundDiv(x, d) == (2 * x + d) \div (2 * d)

nowMs == clock

humanMinutes(ms) == RoundDiv(ms, 60000)

\* computeBlockMs with the last tier entered one violation late.
computeBlockMsLateTier(violations) ==
    IF violations = 1 THEN 1 * 60 * 1000
    ELSE IF violations <= 3 THEN 5 * 60 * 1000
    ELSE 60 * 60 * 1000

computeBlockMs(violations) ==
    IF violations = 1 THEN 1 * 60 * 1000
    ELSE IF violations = 2 THEN 5 * 60 * 1000
    ELSE 60 * 60 * 1000

reportLimiter == [windowMs |-> 24 * 60 * 60 * 1000, max |-> 5]

browseLimiter == [windowMs |-> 60 * 60 * 1000, max |-> 100]

uploadLimiter == [windowMs |-> 24 * 60 * 60 * 1000, max |-> 10]

\* The limiter mounted on a route.
limiterOf(class) ==
    CASE class = "report" -> reportLimiter
      [] class = "browse" -> browseLimiter
      [] class = "upload" -> uploadLimiter

\* obj[k] = v on a JavaScript object used as a map.
Put(obj, k, v) == [x \in DOMAIN obj \cup {k} |-> IF x = k THEN v ELSE obj[x]]

\* delete obj[k]
Delete(obj, k) == [x \in DOMAIN obj \ {k} |-> obj[x]]

\* updateReputation without the clamp of line 57.
updateReputationUnclamped(rep, userKey, change, t) ==
    LET created == IF userKey \in DOMAIN rep
                   THEN rep
                   ELSE Put(rep, userKey, [score |-> 100, lastUpdated |-> t])
    IN  Put(created, userKey,
            [score |-> created[userKey].score + change, lastUpdated |-> t])

\* updateReputation that adjusts every record of the table.
updateReputationEveryKey(rep, userKey, change, t) ==
    LET created == IF userKey \in DOMAIN rep
                   THEN rep
                   ELSE Put(rep, userKey, [score |-> 100, lastUpdated |-> t])
    IN  [k \in DOMAIN created |->
            [score |-> Max(0, Min(200, created[k].score + change)),
             lastUpdated |-> t]]

\* reputation after updateReputation(userKey, change) at time t
updateReputation(rep, userKey, change, t) ==
    LET created == IF userKey \in DOMAIN rep
                   THEN rep
                   ELSE Put(rep, userKey, [score |-> 100, lastUpdated |-> t])
        added   == created[userKey].score + change
    IN  Put(created, userKey,
            [score |-> Max(0, Min(200, added)), lastUpdated |-> t])

getReputation(rep, userKey) ==
    IF userKey \in DOMAIN rep THEN rep[userKey].score ELSE 100

\* store.increment(key) of a limiter with window windowMs at time t: the
\* key's fixed window starts at its first hit and is renewed once expired.
increment(store, key, windowMs, t) ==
    LET fresh  == [totalHits |-> 0, resetTime |-> t + windowMs]
        client == IF key \in DOMAIN store /\ store[key].resetTime > t
                  THEN store[key]
                  ELSE fresh
    IN  Put(store, key, [client EXCEPT !.totalHits = @ + 1])

NoResponse == [status |-> 0]

\* The three headers detectTorVpn reads.
Header == {"x-forwarded-for", "via", "x-tor-exit-node"}

\* Header values, as sequences of characters: empty, one hop, two hops.
HeaderValue == {<<>>, <<"a">>, <<"a", ",", "b">>}

\* The headers of a request: each of the three is absent or has a value.
Headers == UNION {[hs -> HeaderValue] : hs \in SUBSET Header}

\* A request without any of the three headers.
NoHeaders == [h \in {} |-> <<>>]

\* req.headers[name] is truthy: present and not the empty string.
truthy(headers, name) == name \in DOMAIN headers /\ headers[name] # <<>>

\* value.split(",").length
splitLength(value) == 1 + Cardinality({i \in 1..Len(value) : value[i] = ","})

\* detectTorVpn with the test of line 37 left out: only a chain of hops counts.
detectTorVpnChainOnly(headers) ==
    /\ truthy(headers, "x-forwarded-for")
    /\ splitLength(headers["x-forwarded-for"]) > 1

\* The value detectTorVpn stores in req.isTorVpn.
detectTorVpn(headers) ==
    LET any   == \/ truthy(headers, "x-forwarded-for")
                 \/ truthy(headers, "via")
                 \/ truthy(headers, "x-tor-exit-node")
        chain == /\ truthy(headers, "x-forwarded-for")
                 /\ splitLength(headers["x-forwarded-for"]) > 1
    IN  any \/ chain

NoRequest == [key |-> "", class |-> "", headers |-> NoHeaders, isTorVpn |-> FALSE]

EmptyObject == [x \in {} |-> 0]

\* ------------------------------------------------------------------ Init
\* reputation after n calls updateReputation(key, change) at time t
RECURSIVE rewarded(_, _, _, _, _)
rewarded(rep, key, change, n, t) ==
    IF n = 0 THEN rep
    ELSE rewarded(updateReputation(rep, key, change, t), key, change, n - 1, t)

\* store after the calls increment(key) at time t that bring the count of
\* key to n (n >= 1); the count is read back after each call, as the limiter
\* reads totalHits.
RECURSIVE counted(_, _, _, _, _)
counted(store, key, windowMs, n, t) ==
    LET next == increment(store, key, windowMs, t)
    IN  IF next[key].totalHits >= n
        THEN next
        ELSE counted(next, key, windowMs, n, t)

\* The tables of a server on which, at time 0, every key in busy has sent
\* max - 1 requests to each route, all of them served: one more request to a
\* route is the last one under its threshold.
servedHits(busy) ==
    [c \in Class |->
        [k \in busy |->
            counted(EmptyObject, k, limiterOf(c).windowMs, limiterOf(c).max - 1, 0)[k]]]

servedReputation(busy) ==
    [k \in busy |->
        rewarded(rewarded(EmptyObject, k, 5, reportLimiter.max - 1, 0),
                 k, 2, uploadLimiter.max - 1, 0)[k]]

\* The server right after start (busy = {}), or after the served requests of
\* the keys in busy.
InitServed(busy) ==
    /\ clock = 0
    /\ penalties = EmptyObject
    /\ reputation = servedReputation(busy)
    /\ hits = servedHits(busy)
    /\ pc = [r \in Req |-> "idle"]
    /\ req = [r \in Req |-> NoRequest]
    /\ sent = NoResponse
    /\ started = 0

Init == \E busy \in SUBSET Key : InitServed(busy)

InitKey == \E busy \in SUBSET OneKey : InitServed(busy)

InitFresh == InitServed({})

\* A server on which the key of OneKey has a history whose windows have all
\* ended and whose last block was reset by a later admission check: reports
\* and uploads that were served, and crossings that were penalised.  Times
\* are counted from the instant the last window ended.
InitVeteranOf(reports, uploads, crossings) ==
    /\ clock = 0
    /\ penalties = IF crossings = 0
                   THEN EmptyObject
                   ELSE [k \in OneKey |->
                            [violations |-> crossings, blockedUntil |-> 0]]
    /\ reputation =
          [k \in OneKey |->
              rewarded(rewarded(rewarded(EmptyObject, k, 5, reports, 0),
                                k, 2, uploads, 0),
                       k, -10, crossings, 0)[k]]
    /\ hits = [c \in Class |-> EmptyObject]
    /\ pc = [r \in Req |-> "idle"]
    /\ req = [r \in Req |-> NoRequest]
    /\ sent = NoResponse
    /\ started = 0

\* A key with a score of 198 and no violation, or with a score of 5 and ten
\* violations.
InitVeteran == InitVeteranOf(18, 4, 0) \/ InitVeteranOf(1, 0, 10)

\* --------------------------------------------------------------- actions
\* Time passes.
Tick ==
    /\ \E t \in Instants : t > clock /\ clock' = t
    /\ sent' = NoResponse
    /\ UNCHANGED <<penalties, reputation, hits, pc, req, started>>

\* A request for a protected route arrives with the given headers:
\* detectTorVpn flags it and express enters the chain of its route.  Free
\* slots are interchangeable: the lowest one takes the request.
arrive(r, key, class, headers) ==
    /\ pc[r] = "idle"
    /\ \A q \in Req : q < r => pc[q] # "idle"
    /\ started' = started + 1
    /\ req' = [req EXCEPT ![r] = [key |-> key, class |-> class,
                                  headers |-> headers,
                                  isTorVpn |-> detectTorVpn(headers)]]
    /\ pc' = [pc EXCEPT ![r] = "checkBlocked"]
    /\ sent' = NoResponse
    /\ UNCHANGED <<clock, penalties, reputation, hits>>

\* A request that carries none of the three headers arrives.
dispatch(r, key, class) == arrive(r, key, class, NoHeaders)

\* The request of slot r is answered with body: its chain ends.
respond(r, body) ==
    /\ sent' = [slot |-> r, key |-> req[r].key, class |-> req[r].class] @@ body
    /\ pc' = [pc EXCEPT ![r] = "idle"]
    /\ req' = [req EXCEPT ![r] = NoRequest]

\* isBlocked with the comparison turned round.
isBlockedReversed(pen, key, now) ==
    /\ key \in DOMAIN pen
    /\ pen[key].blockedUntil # 0
    /\ pen[key].blockedUntil < now

\* entry && entry.blockedUntil && entry.blockedUntil > now
isBlocked(pen, key, now) ==
    /\ key \in DOMAIN pen
    /\ pen[key].blockedUntil # 0
    /\ pen[key].blockedUntil > now

\* isExpired that misses the instant the block ends.
isExpiredStrict(pen, key, now) ==
    /\ key \in DOMAIN pen
    /\ pen[key].blockedUntil # 0
    /\ pen[key].blockedUntil < now

\* entry && entry.blockedUntil && entry.blockedUntil <= now
isExpired(pen, key, now) ==
    /\ key \in DOMAIN pen
    /\ pen[key].blockedUntil # 0
    /\ pen[key].blockedUntil <= now

\* expire that also forgets the violations.
expireForget(entry) == [violations |-> 0, blockedUntil |-> 0]

\* entry.blockedUntil = 0
expire(entry) == [entry EXCEPT !.blockedUntil = 0]

\* checkBlocked that is mounted on /report only.
checkBlockedReportOnly(r) ==
    LET key == req[r].key
        now == nowMs
    IN  /\ pc[r] = "checkBlocked"
        /\ IF req[r].class = "report" /\ isBlocked(penalties, key, now)
           THEN LET remainingMs == penalties[key].blockedUntil - now
                IN  /\ respond(r, [status |-> 403,
                                   blockedForMinutes |-> humanMinutes(remainingMs),
                                   remainingSeconds |-> RoundDiv(remainingMs, 1000)])
                    /\ UNCHANGED penalties
           ELSE /\ penalties' =
                       IF req[r].class = "report" /\ isExpired(penalties, key, now)
                       THEN [penalties EXCEPT ![key] = expire(@)]
                       ELSE penalties
                /\ pc' = [pc EXCEPT ![r] = "limiter"]
                /\ sent' = NoResponse
                /\ UNCHANGED req
        /\ UNCHANGED <<clock, reputation, hits, started>>

\* checkBlocked that counts a denied request as a violation.
checkBlockedCounting(r) ==
    LET key == req[r].key
        now == nowMs
    IN  /\ pc[r] = "checkBlocked"
        /\ IF isBlocked(penalties, key, now)
           THEN LET remainingMs == penalties[key].blockedUntil - now
                IN  /\ respond(r, [status |-> 403,
                                   blockedForMinutes |-> humanMinutes(remainingMs),
                                   remainingSeconds |-> RoundDiv(remainingMs, 1000)])
                    /\ penalties' = [penalties EXCEPT ![key].violations = @ + 1]
           ELSE /\ penalties' =
                       IF isExpired(penalties, key, now)
                       THEN [penalties EXCEPT ![key] = expire(@)]
                       ELSE penalties
                /\ pc' = [pc EXCEPT ![r] = "limiter"]
                /\ sent' = NoResponse
                /\ UNCHANGED req
        /\ UNCHANGED <<clock, reputation, hits, started>>

checkBlocked(r) ==
    LET key == req[r].key
        now == nowMs
    IN  /\ pc[r] = "checkBlocked"
        /\ IF isBlocked(penalties, key, now)
           THEN LET remainingMs == penalties[key].blockedUntil - now
                IN  /\ respond(r, [status |-> 403,
                                   blockedForMinutes |-> humanMinutes(remainingMs),
                                   remainingSeconds |-> RoundDiv(remainingMs, 1000)])
                    /\ UNCHANGED penalties
           ELSE /\ penalties' =
                       IF isExpired(penalties, key, now)
                       THEN [penalties EXCEPT ![key] = expire(@)]
                       ELSE penalties
                /\ pc' = [pc EXCEPT ![r] = "limiter"]
                /\ sent' = NoResponse
                /\ UNCHANGED req
        /\ UNCHANGED <<clock, reputation, hits, started>>

\* Sum of the hits a store holds for the keys in ks.
RECURSIVE hitsOfAll(_, _)
hitsOfAll(store, ks) ==
    IF ks = {} THEN 0
    ELSE LET k == CHOOSE x \in ks : TRUE
         IN  store[k].totalHits + hitsOfAll(store, ks \ {k})

\* limiter without a key generator: the hits of all keys count together.
limiterAnyKey(r) ==
    LET key   == req[r].key
        class == req[r].class
        cfg   == limiterOf(class)
        store == increment(hits[class], key, cfg.windowMs, nowMs)
    IN  /\ pc[r] = "limiter"
        /\ hits' = [hits EXCEPT ![class] = store]
        /\ pc' = [pc EXCEPT ![r] =
                    IF hitsOfAll(store, DOMAIN store) > cfg.max
                    THEN "handler" ELSE "route"]
        /\ sent' = NoResponse
        /\ UNCHANGED <<clock, penalties, reputation, req, started>>

\* limiter that calls the handler one request early (>= for >).
limiterOffByOne(r) ==
    LET key   == req[r].key
        class == req[r].class
        cfg   == limiterOf(class)
        store == increment(hits[class], key, cfg.windowMs, nowMs)
    IN  /\ pc[r] = "limiter"
        /\ hits' = [hits EXCEPT ![class] = store]
        /\ pc' = [pc EXCEPT ![r] =
                    IF store[key].totalHits >= cfg.max THEN "handler" ELSE "route"]
        /\ sent' = NoResponse
        /\ UNCHANGED <<clock, penalties, reputation, req, started>>

\* The limiter with a store that forgets a key when it crosses the threshold.
limiterResetOnCross(r) ==
    LET key   == req[r].key
        class == req[r].class
        cfg   == limiterOf(class)
        store == increment(hits[class], key, cfg.windowMs, nowMs)
        over  == store[key].totalHits > cfg.max
    IN  /\ pc[r] = "limiter"
        /\ hits' = [hits EXCEPT ![class] = IF over THEN Delete(store, key) ELSE store]
        /\ pc' = [pc EXCEPT ![r] = IF over THEN "handler" ELSE "route"]
        /\ sent' = NoResponse
        /\ UNCHANGED <<clock, penalties, reputation, req, started>>

\* The limiter counts the request in its store and picks the next step:
\* the rate-limit handler when totalHits > max, the route handler otherwise.
limiter(r) ==
    LET key   == req[r].key
        class == req[r].class
        cfg   == limiterOf(class)
        store == increment(hits[class], key, cfg.windowMs, nowMs)
    IN  /\ pc[r] = "limiter"
        /\ hits' = [hits EXCEPT ![class] = store]
        /\ pc' = [pc EXCEPT ![r] =
                    IF store[key].totalHits > cfg.max THEN "handler" ELSE "route"]
        /\ sent' = NoResponse
        /\ UNCHANGED <<clock, penalties, reputation, req, started>>

\* penalise that counts the violation and leaves the block for later.
penaliseCountOnly(pen, key, now) ==
    LET entry == IF key \in DOMAIN pen
                 THEN pen[key]
                 ELSE [violations |-> 0, blockedUntil |-> 0]
    IN  Put(pen, key, [entry EXCEPT !.violations = @ + 1])

\* penalties after lines 97-101 for key at time now
penalise(pen, key, now) ==
    LET entry      == IF key \in DOMAIN pen
                      THEN pen[key]
                      ELSE [violations |-> 0, blockedUntil |-> 0]
        violations == entry.violations + 1
    IN  Put(pen, key, [violations |-> violations,
                       blockedUntil |-> now + computeBlockMs(violations)])

\* The function rateLimitHandlerFactory(max) returns.
rateLimitHandler(r) ==
    LET key     == req[r].key
        now     == nowMs
        pen     == penalise(penalties, key, now)
        blockMs == computeBlockMs(pen[key].violations)
        rep     == updateReputation(reputation, key, -10, nowMs)
    IN  /\ pc[r] = "handler"
        /\ penalties' = pen
        /\ reputation' = rep
        /\ respond(r, [status |-> 429,
                       limit |-> limiterOf(req[r].class).max,
                       blockedForMinutes |-> humanMinutes(blockMs),
                       violations |-> pen[key].violations,
                       unblockTime |-> pen[key].blockedUntil,
                       reputation |-> getReputation(rep, key),
                       torVpnSuspected |-> req[r].isTorVpn])
        /\ UNCHANGED <<clock, hits, started>>

\* POST /report that gives the reward of an upload.
postReportUploadReward(r) ==
    LET rep == updateReputation(reputation, req[r].key, 2, nowMs)
    IN  /\ pc[r] = "route"
        /\ req[r].class = "report"
        /\ reputation' = rep
        /\ respond(r, [status |-> 200,
                       reputation |-> getReputation(rep, req[r].key),
                       torVpnSuspected |-> req[r].isTorVpn])
        /\ UNCHANGED <<clock, penalties, hits, started>>

postReport(r) ==
    LET rep == updateReputation(reputation, req[r].key, 5, nowMs)
    IN  /\ pc[r] = "route"
        /\ req[r].class = "report"
        /\ reputation' = rep
        /\ respond(r, [status |-> 200,
                       reputation |-> getReputation(rep, req[r].key),
                       torVpnSuspected |-> req[r].isTorVpn])
        /\ UNCHANGED <<clock, penalties, hits, started>>

getBrowse(r) ==
    /\ pc[r] = "route"
    /\ req[r].class = "browse"
    /\ respond(r, [status |-> 200, torVpnSuspected |-> req[r].isTorVpn])
    /\ UNCHANGED <<clock, penalties, reputation, hits, started>>

postUpload(r) ==
    LET rep == updateReputation(reputation, req[r].key, 2, nowMs)
    IN  /\ pc[r] = "route"
        /\ req[r].class = "upload"
        /\ reputation' = rep
        /\ respond(r, [status |-> 200,
                       reputation |-> getReputation(rep, req[r].key),
                       torVpnSuspected |-> req[r].isTorVpn])
        /\ UNCHANGED <<clock, penalties, hits, started>>

\* /admin/clear that leaves the penalty record.
adminClearReputationOnly(user) ==
    /\ penalties' = penalties
    /\ reputation' = Delete(reputation, user)
    /\ sent' = NoResponse
    /\ UNCHANGED <<clock, hits, pc, req, started>>

\* /admin/clear that empties both tables.
adminClearAll(user) ==
    /\ penalties' = EmptyObject
    /\ reputation' = EmptyObject
    /\ sent' = NoResponse
    /\ UNCHANGED <<clock, hits, pc, req, started>>

\* POST /admin/clear with body {user}
adminClear(user) ==
    /\ penalties' = Delete(penalties, user)
    /\ reputation' = Delete(reputation, user)
    /\ sent' = NoResponse
    /\ UNCHANGED <<clock, hits, pc, req, started>>

\* One of the calls updateReputation(key, -10 | +5 | +2) of the handlers.
adjust(key, change) ==
    /\ reputation' = updateReputation(reputation, key, change, nowMs)
    /\ sent' = NoResponse
    /\ UNCHANGED <<clock, penalties, hits, pc, req, started>>

\* getReputation(key) that creates the record it did not find.
readReputationCreating(key) ==
    /\ reputation' = updateReputation(reputation, key, 0, nowMs)
    /\ sent' = [status |-> 200, slot |-> 0, key |-> key, class |-> "getReputation",
                reputation |-> getReputation(reputation', key)]
    /\ UNCHANGED <<clock, penalties, hits, pc, req, started>>

\* A read of the score of a key: getReputation(key).
readReputation(key) ==
    /\ sent' = [status |-> 200, slot |-> 0, key |-> key, class |-> "getReputation",
                reputation |-> getReputation(reputation, key)]
    /\ UNCHANGED <<clock, penalties, reputation, hits, pc, req, started>>

\* GET /admin/penalties: the snapshot of both tables.
adminPenalties ==
    /\ sent' = [status |-> 200, slot |-> 0, key |-> "", class |-> "admin/penalties",
                penalties |-> penalties, reputation |-> reputation]
    /\ UNCHANGED <<clock, penalties, reputation, hits, pc, req, started>>

\* ------------------------------------------------------- specifications
\* Two principals, all routes, two requests in flight.
Next ==
    \/ Tick
    \/ \E r \in Req, key \in Key, class \in Class :
          started < MaxStarted /\ dispatch(r, key, class)
    \/ \E r \in Req : checkBlocked(r)
    \/ \E r \in Req : limiter(r)
    \/ \E r \in Req : rateLimitHandler(r)
    \/ \E r \in Req : postReport(r)
    \/ \E r \in Req : getBrowse(r)
    \/ \E r \in Req : postUpload(r)
    \/ \E user \in Key : adminClear(user)

Spec == Init /\ [][Next]_vars

\* One principal, all routes, two requests in flight: longer runs.
NextKey ==
    \/ Tick
    \/ \E r \in Req, key \in OneKey, class \in Class :
          started < MaxStartedKey /\ dispatch(r, key, class)
    \/ \E r \in Req : checkBlocked(r)
    \/ \E r \in Req : limiter(r)
    \/ \E r \in Req : rateLimitHandler(r)
    \/ \E r \in Req : postReport(r)
    \/ \E r \in Req : getBrowse(r)
    \/ \E r \in Req : postUpload(r)
    \/ \E user \in OneKey : adminClear(user)

SpecKey == InitKey /\ [][NextKey]_vars

\* A fresh server and one principal that sends reports one after the other.
NextReport ==
    \/ Tick
    \/ \E key \in OneKey : started < MaxReports /\ dispatch(1, key, "report")
    \/ checkBlocked(1)
    \/ limiter(1)
    \/ rateLimitHandler(1)
    \/ postReport(1)

SpecReport == InitFresh /\ [][NextReport]_vars

\* The reputation table under any sequence of adjustments of one key.
NextRep ==
    \/ Tick
    \/ \E key \in OneKey, change \in {-10, 5, 2} : adjust(key, change)
    \/ \E user \in OneKey : adminClear(user)

SpecRep == InitFresh /\ [][NextRep]_vars

\* Two principals that browse, with the reads and the reset of the tables.
NextAdmin ==
    \/ Tick
    \/ \E r \in Req, key \in Key :
          started < MaxStartedAdmin /\ dispatch(r, key, "browse")
    \/ \E r \in Req : checkBlocked(r)
    \/ \E r \in Req : limiter(r)
    \/ \E r \in Req : rateLimitHandler(r)
    \/ \E r \in Req : getBrowse(r)
    \/ \E key \in Key : readReputation(key)
    \/ adminPenalties
    \/ \E user \in Key : adminClear(user)

SpecAdmin == Init /\ [][NextAdmin]_vars

\* One principal whose requests carry any of the three headers, handled one
\* after the other.
NextTor ==
    \/ \E key \in OneKey, class \in Class, headers \in Headers :
          started < MaxStartedTor /\ arrive(1, key, class, headers)
    \/ checkBlocked(1)
    \/ limiter(1)
    \/ rateLimitHandler(1)
    \/ postReport(1)
    \/ getBrowse(1)
    \/ postUpload(1)

SpecTor == InitKey /\ [][NextTor]_vars

\* One principal with a long history, its requests handled one after the
\* other.
NextReward ==
    \/ Tick
    \/ \E key \in OneKey, class \in Class :
          started < MaxStartedReward /\ dispatch(1, key, class)
    \/ checkBlocked(1)
    \/ limiter(1)
    \/ rateLimitHandler(1)
    \/ postReport(1)
    \/ getBrowse(1)
    \/ postUpload(1)

SpecReward == InitVeteran /\ [][NextReward]_vars

\* One principal that browses; every step of a request that is in flight is
\* taken in the end (the event loop runs every pending callback).
NextWindow ==
    \/ Tick
    \/ \E r \in Req, key \in OneKey :
          started < MaxStartedWindow /\ dispatch(r, key, "browse")
    \/ \E r \in Req : checkBlocked(r)
    \/ \E r \in Req : limiter(r)
    \/ \E r \in Req : rateLimitHandler(r)
    \/ \E r \in Req : getBrowse(r)

SpecWindow ==
    /\ InitKey
    /\ [][NextWindow]_vars
    /\ \A r \in Req : /\ WF_vars(checkBlocked(r))
                       /\ WF_vars(limiter(r))
                       /\ WF_vars(rateLimitHandler(r))
                       /\ WF_vars(getBrowse(r))

\* ---------------------------------------------------------------- claims
\* C1: the block a threshold crossing sets depends only on the key's
\* violation count after the increment: the rate-limit handler leaves
\* blockedUntil = now + 1 min when the count is 1, now + 5 min when it is 2
\* and now + 60 min when it is 3 or more, at whatever time the crossing
\* happens.
C1_BlockByViolationCount ==
    sent.status = 429 =>
        /\ sent.key \in DOMAIN penalties
        /\ penalties[sent.key].violations = sent.violations
        /\ sent.violations >= 1
        /\ sent.unblockTime = penalties[sent.key].blockedUntil
        /\ penalties[sent.key].blockedUntil =
              clock + (IF sent.violations = 1 THEN 60000
                       ELSE IF sent.violations = 2 THEN 300000
                       ELSE 3600000)

\* A second violation at t = 2 min, after the block of the first has expired:
\* a 5 minute block, until t = 7 min.
C1_Witness ==
    /\ clock = 120000
    /\ sent.status = 429
    /\ sent.violations = 2
    /\ sent.blockedForMinutes = 5
    /\ penalties[sent.key] = [violations |-> 2, blockedUntil |-> 420000]

\* The admission check of slot r runs in this step.
checkRuns(r) == pc[r] = "checkBlocked" /\ pc'[r] # "checkBlocked"

\* now < blockedUntil for the key of slot r.
blockPending(r) ==
    /\ req[r].key \in DOMAIN penalties
    /\ clock < penalties[req[r].key].blockedUntil

\* C2 (as amended): an admission check that runs at a time now < blockedUntil
\* denies the request: it answers 403, the chain ends before the limiter and
\* the route, and the window counters are untouched.  blockedUntil - now is
\* strictly positive; the response reports it rounded to the nearest second
\* (remainingSeconds) and to the nearest minute (blockedForMinutes).
C2_DeniedWhileBlocked ==
    [][\A r \in Req :
        (checkRuns(r) /\ blockPending(r)) =>
            LET remainingMs == penalties[req[r].key].blockedUntil - clock
            IN  /\ sent'.status = 403
                /\ sent'.slot = r
                /\ pc'[r] = "idle"
                /\ hits' = hits
                /\ remainingMs > 0
                /\ sent'.remainingSeconds = (remainingMs + 500) \div 1000
                /\ sent'.blockedForMinutes = (remainingMs + 30000) \div 60000]_vars

\* C2 as stated: the denial reports exactly blockedUntil - now, a strictly
\* positive time.
C2_ReportsExactRemaining ==
    [][\A r \in Req :
        (checkRuns(r) /\ blockPending(r)) =>
            /\ sent'.status = 403
            /\ sent'.remainingSeconds * 1000 =
                  penalties[req[r].key].blockedUntil - clock
            /\ sent'.remainingSeconds > 0]_vars

\* A request denied 400 ms before the end of a one minute block: the
\* response says 0 seconds and 0 minutes remain.
C2_Witness ==
    /\ sent.status = 403
    /\ clock = 59600
    /\ penalties[sent.key].blockedUntil = 60000
    /\ sent.remainingSeconds = 0
    /\ sent.blockedForMinutes = 0

\* C3: an admission check that runs for a key with a penalty record at a time
\* now >= blockedUntil allows the request (no response, the limiter is next)
\* and leaves the stored blockedUntil at 0, so that the key is Clear; it
\* keeps violationCount.  The reset happens at that check only: the passing
\* of time alone does not change the record.
C3_ExpiryAtNextCheck ==
    [][/\ \A r \in Req :
            (/\ checkRuns(r)
             /\ req[r].key \in DOMAIN penalties
             /\ clock >= penalties[req[r].key].blockedUntil) =>
                /\ pc'[r] = "limiter"
                /\ sent'.status = 0
                /\ penalties'[req[r].key].blockedUntil = 0
                /\ penalties'[req[r].key].violations =
                      penalties[req[r].key].violations
                /\ ~isBlocked(penalties', req[r].key, clock')
       /\ clock' # clock => penalties' = penalties]_vars

\* A request admitted after its key's block has ended: the record is reset
\* and still counts the violation.
C3_Witness ==
    \E r \in Req :
        /\ pc[r] = "limiter"
        /\ req[r].key \in DOMAIN penalties
        /\ penalties[req[r].key].blockedUntil = 0
        /\ penalties[req[r].key].violations >= 1
        /\ clock >= 120000

\* Requests of key k counted by the limiter of class a in the window that is
\* open at time t (0 when none is open).
countedInWindow(h, a, k, t) ==
    IF k \in DOMAIN h[a] /\ h[a][k].resetTime > t THEN h[a][k].totalHits ELSE 0

\* maxRequests of the three action classes.
maxRequests(a) ==
    CASE a = "report" -> 5
      [] a = "browse" -> 100
      [] a = "upload" -> 10

\* C4: per (key, action class), with maxRequests = N: a request that reaches
\* the counter is counted as one more request of its key and class in the
\* open window; it goes on to the route (not exceeded) when it is one of the
\* first N of the window and to the rate-limit handler (exceeded) when it is
\* the (N+1)th or a later one; the counters of every other key and of every
\* other class are not changed by it.
C4_ThresholdPerKeyAndClass ==
    [][\A r \in Req :
        (pc[r] = "limiter" /\ pc'[r] # "limiter") =>
            LET k == req[r].key
                a == req[r].class
                n == countedInWindow(hits, a, k, clock) + 1
            IN  /\ k \in DOMAIN hits'[a]
                /\ hits'[a][k].totalHits = n
                /\ hits'[a][k].resetTime > clock
                /\ n <= maxRequests(a) => pc'[r] = "route"
                /\ n > maxRequests(a) => pc'[r] = "handler"
                /\ \A a2 \in Class : \A k2 \in Key :
                      (a2 # a \/ k2 # k) =>
                          /\ k2 \in DOMAIN hits'[a2] <=> k2 \in DOMAIN hits[a2]
                          /\ k2 \in DOMAIN hits[a2] => hits'[a2][k2] = hits[a2][k2]]_vars

\* The 101st browse request of a key in its window waits for the rate-limit
\* handler, while another key has requests counted for the same class.
C4_Witness ==
    \E r \in Req :
        /\ pc[r] = "handler"
        /\ req[r].class = "browse"
        /\ hits["browse"][req[r].key].totalHits = 101
        /\ \E k2 \in DOMAIN hits["browse"] : k2 # req[r].key

\* violationCount of key k in the table pen (0 without a record).
violationsOf(pen, k) == IF k \in DOMAIN pen THEN pen[k].violations ELSE 0

\* C5: of two requests of one principal that are in flight together, both
\* past the admission check and both over the threshold, at most one is
\* penalised: a penalty (429) of a key is not directly followed by a second
\* penalty of the same key, whose request was then already waiting for its
\* handler.
C5_OnePenaltyPerCrossing ==
    [][~(/\ sent.status = 429
         /\ sent'.status = 429
         /\ sent'.key = sent.key
         /\ sent'.violations = sent.violations + 1
         /\ sent'.reputation < sent.reputation)]_vars

\* C6: unless the step is an administrative reset, no step lowers the
\* violationCount of a key or removes its record: the step that answers 429
\* raises the count of that key by exactly 1, and every other step, the reset
\* of an expired blockedUntil included, leaves every count as it is.
C6_ViolationsMonotone ==
    [][(\E user \in Key : adminClear(user)) \/
       \A k \in Key :
          /\ k \in DOMAIN penalties => k \in DOMAIN penalties'
          /\ violationsOf(penalties', k) =
                IF sent'.status = 429 /\ sent'.key = k
                THEN violationsOf(penalties, k) + 1
                ELSE violationsOf(penalties, k)]_vars

\* The record of a key after two violations and the passive reset of the
\* second block.
C6_Witness ==
    \E k \in DOMAIN penalties :
        penalties[k] = [violations |-> 2, blockedUntil |-> 0]

\* C7: after every adjustment (-10, +5, +2) the stored score of every key is
\* an integer in [0, 200], and a record that the adjustment creates holds
\* 100 plus the delta.
C7_ScoreWithinBounds ==
    [][\A k \in DOMAIN reputation' :
          /\ reputation'[k].score \in 0..200
          /\ k \notin DOMAIN reputation =>
                reputation'[k].score \in {100 - 10, 100 + 5, 100 + 2}]_vars

\* A score at the upper bound, after an adjustment at a later time.
C7_Witness ==
    \E k \in DOMAIN reputation :
        reputation[k].score = 200 /\ reputation[k].lastUpdated > 0

\* C8: the step that denies a request (403) changes none of the three
\* tables: no window counter, no penalty record and no reputation record of
\* any key is created or modified.
C8_DenialChangesNothing ==
    [][sent'.status = 403 =>
          /\ hits' = hits
          /\ penalties' = penalties
          /\ reputation' = reputation]_vars

\* A denied request, its key still blocked.
C8_Witness ==
    /\ sent.status = 403
    /\ isBlocked(penalties, sent.key, clock)
    /\ sent.remainingSeconds > 0

\* Reports of alice counted in the current window.
reportsOfAlice ==
    IF "alice" \in DOMAIN hits["report"] THEN hits["report"]["alice"].totalHits ELSE 0

\* C9 (as amended): on a fresh server, reports 1 to 5 of a key go on to the
\* route and each is served with a reward of 5; report 6 goes to the
\* rate-limit handler, which makes violationCount 1, sets a block of 60000 ms
\* (1 minute) and drops the reputation by 10 from the 125 the five served
\* reports left to 115.
C9_SixthReport ==
    /\ pc[1] = "route" => reportsOfAlice \in 1..5
    /\ pc[1] = "handler" => reportsOfAlice > 5
    /\ sent.status = 200 =>
          reportsOfAlice \in 1..5 /\ sent.reputation = 100 + 5 * reportsOfAlice
    /\ (sent.status = 429 /\ reportsOfAlice = 6) =>
          /\ sent.violations = 1
          /\ penalties["alice"] = [violations |-> 1, blockedUntil |-> clock + 60000]
          /\ sent.blockedForMinutes = 1
          /\ sent.reputation = 115
          /\ reputation["alice"].score = 115

\* C9 as stated: report 6 drops the reputation from 100 to 90.
C9_DropsTo90 ==
    (sent.status = 429 /\ reportsOfAlice = 6) =>
        /\ sent.violations = 1
        /\ penalties["alice"].blockedUntil = clock + 60000
        /\ sent.reputation = 90

\* Six reports at the same instant: the sixth is answered 429.
C9_Witness ==
    /\ clock = 0
    /\ sent.status = 429
    /\ reportsOfAlice = 6
    /\ sent.reputation = 115

\* C10: violationCount and blockedUntil of a key change in one step: the
\* step that changes the count of a key (at time now) leaves its record with
\* blockedUntil = now + escalate(violationCount), and a step that keeps the
\* count keeps blockedUntil or resets it to 0.
C10_CountAndBlockTogether ==
    [][\A k \in DOMAIN penalties' :
          IF violationsOf(penalties', k) # violationsOf(penalties, k)
          THEN penalties'[k].blockedUntil =
                 clock + computeBlockMs(penalties'[k].violations)
          ELSE penalties'[k].blockedUntil \in {penalties[k].blockedUntil, 0}]_vars

\* A request that waits for its handler while another request of its key has
\* just been penalised sees the count and the block of that penalty.
C10_Witness ==
    /\ sent.status = 429
    /\ \E r \in Req : pc[r] = "handler" /\ req[r].key = sent.key
    /\ penalties[sent.key].blockedUntil =
          clock + computeBlockMs(penalties[sent.key].violations)

\* ------------------------------------------------------------------ C11
\* C11: a read of the reputation leaves the reputation table as it was and
\* returns the score of the record, or 100 when the key has no record; the
\* snapshot returns the tables as they are and leaves them so; a served
\* browse leaves the reputation table as it was.
C11_ReadsCreateNothing ==
    [][/\ (sent'.status = 200 /\ sent'.class = "getReputation") =>
            /\ reputation' = reputation
            /\ sent'.reputation = IF sent'.key \in DOMAIN reputation
                                   THEN reputation[sent'.key].score
                                   ELSE 100
       /\ (sent'.status = 200 /\ sent'.class = "admin/penalties") =>
            /\ reputation' = reputation
            /\ penalties' = penalties
            /\ sent'.reputation = reputation
            /\ sent'.penalties = penalties
       /\ (sent'.status = 200 /\ sent'.class = "browse") =>
            reputation' = reputation]_vars

\* The score of a key without a record was read as 100, and the key still has
\* no record.
C11_Witness ==
    /\ sent.status = 200
    /\ sent.class = "getReputation"
    /\ sent.reputation = 100
    /\ sent.key \notin DOMAIN reputation

\* ------------------------------------------------------------------ C12
\* The record of a key in a table, as a sequence of at most one element.
recordOf(table, k) == IF k \in DOMAIN table THEN <<table[k]>> ELSE <<>>

\* The step is a reset: nothing is sent, no request moves, no time passes.
clearStep == sent'.status = 0 /\ pc' = pc /\ clock' = clock

\* C12: a reset removes the penalty record and the reputation record of one
\* key and leaves the records of every other key as they were; after it the
\* key is not blocked and its reputation reads 100; the first threshold
\* crossing of a key without a penalty record is violation 1, with a block
\* of one minute.
C12_ResetForgetsOneKey ==
    [][/\ clearStep =>
            \E user \in Key :
               /\ user \notin DOMAIN penalties'
               /\ user \notin DOMAIN reputation'
               /\ ~isBlocked(penalties', user, clock')
               /\ getReputation(reputation', user) = 100
               /\ \A k \in Key \ {user} :
                     /\ recordOf(penalties', k) = recordOf(penalties, k)
                     /\ recordOf(reputation', k) = recordOf(reputation, k)
       /\ (sent'.status = 429 /\ sent'.key \notin DOMAIN penalties) =>
            /\ sent'.violations = 1
            /\ sent'.blockedForMinutes = 1
            /\ penalties'[sent'.key].blockedUntil = clock + 60000]_vars

\* A key crossed the threshold twice and its second crossing was violation 1
\* again, with a score of 90: its records were reset in between, while the
\* other key kept its reputation record.
C12_Witness ==
    /\ \A r \in Req : pc[r] = "idle"
    /\ sent.status = 429
    /\ sent.violations = 1
    /\ sent.reputation = 90
    /\ hits["browse"][sent.key].totalHits = 102
    /\ \E k \in Key \ {sent.key} : k \in DOMAIN reputation

\* ------------------------------------------------------------------ C13
\* Request r takes one of its steps: the admission check, the window count,
\* the penalty or the route.
requestStep(r) == pc[r] # "idle" /\ pc'[r] # pc[r]

C15_FlagIffHeaderPresent ==
    [][\A r \in Req :
          (pc[r] = "idle" /\ pc'[r] # "idle") =>
             /\ req'[r].isTorVpn =
                   (\E h \in Header : /\ h \in DOMAIN req'[r].headers
                                       /\ Len(req'[r].headers[h]) > 0)
             /\ penalties' = penalties
             /\ reputation' = reputation
             /\ hits' = hits]_vars

\* A request whose only header of the three is a proxy chain of two hops is
\* flagged.
C15_Witness ==
    \E r \in Req :
       /\ pc[r] = "checkBlocked"
       /\ DOMAIN req[r].headers = {"x-forwarded-for"}
       /\ req[r].headers["x-forwarded-for"] = <<"a", ",", "b">>
       /\ req[r].isTorVpn

\* ------------------------------------------------------------------ C16
\* C16: a violation is recorded for a key only while the key is not blocked:
\* the step that answers 429, which raises violationCount and assigns
\* blockedUntil, is never taken at a time before the blockedUntil the key
\* already has.
C16_ViolationOnlyWhileClear ==
    [][sent'.status = 429 => ~isBlocked(penalties, sent'.key, clock)]_vars

\* ------------------------------------------------------------------ C17
\* C17: the penalty record belongs to the key, not to a route: whatever the
\* route of a request, the admission check denies it while its key is
\* blocked, and whatever the route of a threshold crossing, it raises the one
\* violationCount of the key by 1 and leaves the key blocked.
C17_OneRecordForAllClasses ==
    [][/\ \A a \in Class : \A r \in Req :
             (checkRuns(r) /\ req[r].class = a /\ blockPending(r)) =>
                /\ sent'.status = 403
                /\ sent'.class = a
                /\ pc'[r] = "idle"
       /\ \A a \in Class :
             (sent'.status = 429 /\ sent'.class = a) =>
                /\ violationsOf(penalties', sent'.key) =
                      violationsOf(penalties, sent'.key) + 1
                /\ sent'.violations = violationsOf(penalties', sent'.key)
                /\ isBlocked(penalties', sent'.key, clock)
       /\ DOMAIN penalties' \subseteq Key]_vars

\* The second violation of a key, on /browse, where exactly one of its
\* requests was over the threshold: its first violation was on another route.
C17_Witness ==
    /\ sent.status = 429
    /\ sent.class = "browse"
    /\ sent.violations = 2
    /\ hits["browse"][sent.key].totalHits = browseLimiter.max + 1

windowOpen(h, a, k, t) == k \in DOMAIN h[a] /\ h[a][k].resetTime > t

\* Request r is counted by the limiter in this step.
limiterRuns(r) == pc[r] = "limiter" /\ pc'[r] # "limiter"

\* Request r waits for its admission check, no other request is in flight,
\* its key is not blocked and the window of its key and class has ended.
nextAfterWindow(r) ==
    /\ pc[r] = "checkBlocked"
    /\ \A q \in Req \ {r} : pc[q] = "idle"
    /\ ~isBlocked(penalties, req[r].key, clock)
    /\ ~windowOpen(hits, req[r].class, req[r].key, clock)

\* C19: a request counted while the window of its key and class is open adds
\* 1 to the count of that window, also when the count is over the threshold
\* already, and then the request is a crossing again; no other step, a block
\* and the reset of an expired block included, changes a count; a request
\* counted after the window has ended is the first of a new window and goes
\* on to its route; and once the window has ended and the block is over, the
\* next request of the key is served in the end.
C19_WindowOutlivesBlock ==
    /\ [][/\ \A r \in Req :
              LET k == req[r].key
                  a == req[r].class
              IN  /\ (limiterRuns(r) /\ windowOpen(hits, a, k, clock)) =>
                       /\ k \in DOMAIN hits'[a]
                       /\ hits'[a][k].totalHits = hits[a][k].totalHits + 1
                       /\ hits'[a][k].resetTime = hits[a][k].resetTime
                       /\ hits[a][k].totalHits >= maxRequests(a) =>
                              pc'[r] = "handler"
                  /\ (limiterRuns(r) /\ ~windowOpen(hits, a, k, clock)) =>
                       /\ k \in DOMAIN hits'[a]
                       /\ hits'[a][k].totalHits = 1
                       /\ pc'[r] = "route"
          /\ (\A r \in Req : ~limiterRuns(r)) => hits' = hits]_vars
    /\ \A r \in Req :
          nextAfterWindow(r) ~> (sent.status = 200 /\ sent.slot = r)

\* After two violations in one window, the window over and the second block
\* reset, a request of the key was served as the first of a new window.
C19_Witness ==
    /\ sent.status = 200
    /\ sent.class = "browse"
    /\ sent.key \in DOMAIN penalties
    /\ penalties[sent.key].violations = 2
    /\ penalties[sent.key].blockedUntil = 0
    /\ hits["browse"][sent.key].totalHits = 1

\* ------------------------------------------------------------------ C20
\* The step changes both the penalty record and the reputation record of k.
changesBoth(k) ==
    /\ recordOf(penalties', k) # recordOf(penalties, k)
    /\ recordOf(reputation', k) # recordOf(reputation, k)

\* C20 as stated: a threshold crossing is the only step that changes the
\* penalty record and the reputation record of a key together.
C20_OnlyCrossingChangesBoth ==
    [][\A k \in Key :
          changesBoth(k) => (sent'.status = 429 /\ sent'.key = k)]_vars

\* C20 (as amended): a key with a penalty record has violationCount >= 1 and
\* a reputation record; the steps that change the penalty record and the
\* reputation record of a key together are its threshold crossings and the
\* reset that removes both.
C20_PenaltyImpliesReputation ==
    [][\A k \in Key :
          /\ k \in DOMAIN penalties' =>
                /\ penalties'[k].violations >= 1
                /\ k \in DOMAIN reputation'
          /\ changesBoth(k) =>
                \/ sent'.status = 429 /\ sent'.key = k
                \/ /\ clearStep
                   /\ k \notin DOMAIN penalties'
                   /\ k \notin DOMAIN reputation']_vars

\* No request is in flight and a key that was counted over a threshold, and
\* so was penalised, has neither record: a reset removed both.
C20_Witness ==
    /\ \A r \in Req : pc[r] = "idle"
    /\ \E k \in Key, a \in Class :
          /\ k \in DOMAIN hits[a]
          /\ hits[a][k].totalHits > maxRequests(a)
          /\ k \notin DOMAIN penalties
          /\ k \notin DOMAIN reputation

====
